---- MODULE Spec2Model ----
(***************************************************************************)
(* A model of pyEQL's activity correction library                          *)
(* (src/pyEQL/activity_correction.py).                                     *)
(*                                                                         *)
(* Python floats are modelled as fixed-point integers at Scale (six        *)
(* decimal digits); every arithmetic step truncates toward zero.  A        *)
(* Python value is a record                                                *)
(*    [e  : "ok" or the name of the exception that was raised,             *)
(*     m  : the mantissa at Scale,                                         *)
(*     x  : a decimal exponent (the magnitude is m * 10^x / Scale; it is   *)
(*          0 except inside the Debye-Huckel parameters, whose physical    *)
(*          constants do not fit 32 bits otherwise),                       *)
(*     d  : the dimension (exponents of the SI base units at DimScale),    *)
(*     q  : TRUE for a pint Quantity, FALSE for a bare number,             *)
(*     cx : TRUE for a complex number (the root of a negative float)]      *)
(* and the operators below evaluate operands left to right, as Python      *)
(* does, so the first exception raised is the one that surfaces.           *)
(***************************************************************************)
EXTENDS Integers, Sequences, FiniteSets

----------------------------------------------------------------------------
(* Fixed-point arithmetic on magnitudes *)

K3 == 10 * 10 * 10
Scale == K3 * K3

AbsInt(x) == IF x < 0 THEN -x ELSE x
SgnInt(x) == IF x < 0 THEN -1 ELSE 1

\* a*b/Scale without leaving 32 bits: both factors split at K3.
MulPos(a, b) ==
    LET ah == a \div K3
        al == a % K3
        bh == b \div K3
        bl == b % K3
    IN  ah * bh + (ah * bl + al * bh + (al * bl) \div K3) \div K3

MulFix(a, b) == SgnInt(a) * SgnInt(b) * MulPos(AbsInt(a), AbsInt(b))

RECURSIVE Pow10(_)
Pow10(n) == IF n = 0 THEN 1 ELSE 10 * Pow10(n - 1)

RECURSIVE LongDiv(_, _, _)
LongDiv(r, b, n) ==
    IF n = 0 THEN 0
    ELSE LET t == r * 10
         IN  (t \div b) * Pow10(n - 1) + LongDiv(t % b, b, n - 1)

\* a*Scale/b for a >= 0, b > 0, digit by digit.
RECURSIVE DivPos(_, _)
DivPos(a, b) ==
    IF b >= 100 * Scale THEN DivPos(a \div 10, b \div 10)
    ELSE (a \div b) * Scale + LongDiv(a % b, b, 6)

DivFix(a, b) == SgnInt(a) * SgnInt(b) * DivPos(AbsInt(a), AbsInt(b))

\* Newton's iteration from above; it stops where it no longer decreases.
RECURSIVE Newton(_, _, _)
Newton(a, y, n) ==
    IF n = 0 THEN y
    ELSE LET y2 == (y + DivPos(a, y)) \div 2
         IN  IF y2 >= y THEN y ELSE Newton(a, y2, n - 1)

SqrtFix(a) == IF a = 0 THEN 0 ELSE Newton(a, IF a > Scale THEN a ELSE Scale, 60)

\* e^x, x >= 0: halve the argument down to 1/4, sum the series, square back.
RECURSIVE ExpPos(_)
ExpPos(x) ==
    IF x > Scale \div 4
    THEN LET h == ExpPos(x \div 2) IN MulPos(h, h)
    ELSE LET x2 == MulPos(x, x)
             x3 == MulPos(x2, x)
             x4 == MulPos(x3, x)
             x5 == MulPos(x4, x)
             x6 == MulPos(x5, x)
         IN  Scale + x + x2 \div 2 + x3 \div 6 + x4 \div 24 + x5 \div 120
             + x6 \div 720

\* e^-x, x >= 0: the reciprocal while e^x fits 32 bits, else the square of
\* e^-(x/2).
RECURSIVE ExpNeg(_)
ExpNeg(x) ==
    IF x > 7 * Scale
    THEN LET h == ExpNeg(x \div 2) IN MulPos(h, h)
    ELSE DivPos(Scale, ExpPos(x))

ExpFix(x) == IF x < 0 THEN ExpNeg(-x) ELSE ExpPos(x)

\* ln x for 1/2 <= x <= 2 by the series of 2*atanh((x-1)/(x+1)); outside,
\* ln 2 = 0.693147 is added or taken off for every halving or doubling.
LnCore(x) ==
    LET y   == DivFix(x - Scale, x + Scale)
        y2  == MulFix(y, y)
        y3  == MulFix(y, y2)
        y5  == MulFix(y3, y2)
        y7  == MulFix(y5, y2)
        y9  == MulFix(y7, y2)
        y11 == MulFix(y9, y2)
        y13 == MulFix(y11, y2)
    IN  2 * (y + y3 \div 3 + y5 \div 5 + y7 \div 7 + y9 \div 9 + y11 \div 11
             + y13 \div 13)

RECURSIVE LnFix(_)
LnFix(x) ==
    IF x > 2 * Scale THEN LnFix(x \div 2) + 693147
    ELSE IF 2 * x < Scale THEN LnFix(2 * x) - 693147
    ELSE LnCore(x)

----------------------------------------------------------------------------
(* Python values: floats, pint Quantities, raised exceptions *)

DimScale == K3
Half == Scale \div 2
ThreeHalves == Scale + Half

\* The exponents of the base units of a Quantity, and of the prefix milli of
\* the unit it is written in (mmol/kg is milli^1 mol^1 kg^-1).
NoDim == [mol |-> 0, kg |-> 0, K |-> 0, m |-> 0, s |-> 0, A |-> 0, milli |-> 0]
DimOf(mol, kg, K, m, s, A) ==
    [mol |-> mol * DimScale, kg |-> kg * DimScale, K |-> K * DimScale,
     m |-> m * DimScale, s |-> s * DimScale, A |-> A * DimScale, milli |-> 0]
DimMul(a, b) == [f \in DOMAIN a |-> a[f] + b[f]]
DimDiv(a, b) == [f \in DOMAIN a |-> a[f] - b[f]]
\* Exponents times p (p at Scale).
DimPow(a, p) == [f \in DOMAIN a |-> (a[f] * (p \div K3)) \div K3]

MolPerKg == DimOf(1, -1, 0, 0, 0, 0)
MilliMolPerKg == [MolPerKg EXCEPT !.milli = DimScale]
\* The dimensionality of a unit: its exponents without the prefix.
Dimensionality(d) == [d EXCEPT !.milli = 0]
KgPerMol == DimOf(-1, 1, 0, 0, 0, 0)
Kg2PerMol2 == DimOf(-2, 2, 0, 0, 0, 0)
RootKgPerMol == DimPow(KgPerMol, Half)
KelvinDim == DimOf(0, 0, 1, 0, 0, 0)

\* Record constructors list their fields in the order TLC keeps them (the
\* order in which the names first occur in this module), so that a record is never
\* rearranged while two workers read it.
Val(m, x, d, q) == [x |-> x, m |-> m, d |-> d, q |-> q, e |-> "ok", cx |-> FALSE]
Num(m) == Val(m, 0, NoDim, FALSE)
Qty(m, d) == Val(m, 0, d, TRUE)
Raise(err) == [x |-> 0, m |-> 0, d |-> NoDim, q |-> FALSE, e |-> err, cx |-> FALSE]
Complex(d, q) == [x |-> 0, m |-> 0, d |-> d, q |-> q, e |-> "ok", cx |-> TRUE]
IsOk(v) == v.e = "ok"

\* The binary and unary operations below are functions of the values of
\* their operands: each operand is evaluated once, the left one first.
Dims == [mol : Int, kg : Int, K : Int, m : Int, s : Int, A : Int, milli : Int]
Values == [e : STRING, m : Int, x : Int, d : Dims, q : BOOLEAN, cx : BOOLEAN]

\* The mantissa of v at decimal exponent x (digits shifted out are lost).
RECURSIVE Shift(_, _)
Shift(m, k) ==
    IF k = 0 THEN m
    ELSE IF k > 0 THEN Shift(m * 10, k - 1)
    ELSE Shift(SgnInt(m) * (AbsInt(m) \div 10), k + 1)
MantissaAt(v, x) == Shift(v.m, v.x - x)
MaxInt(a, b) == IF a > b THEN a ELSE b

\* 10 ** (-3 * e / DimScale): what one unit with the prefix milli to the
\* power e / DimScale is in the unit without the prefix, as a mantissa at
\* Scale and a decimal exponent.
PrefixExponent(e) == (-3 * e) \div DimScale
PrefixMantissa(e) ==
    IF (-3 * e) % DimScale = 0 THEN Scale
    ELSE ExpFix((((-3 * e) % DimScale) * (2302585 \div 5)) \div 200)

\* v written in the unit of the same dimensionality that has the prefix
\* milli to the power e / DimScale.
InPrefix[pair \in Values \X Int] ==
    LET v == pair[1]
        e == pair[2]
    IN
        IF ~IsOk(v) \/ v.cx \/ v.d.milli = e THEN v
        ELSE Val(MulFix(v.m, PrefixMantissa(v.d.milli - e)),
                 v.x + PrefixExponent(v.d.milli - e),
                 [v.d EXCEPT !.milli = e], v.q)

Rescaled(v, e) == InPrefix[<< v, e >>]

\* The sum of two operands written in the same unit.
SumInOneUnit[pair \in Values \X Values] ==
    LET a == pair[1]
        b == pair[2]
        x == MaxInt(a.x, b.x)
    IN  Val(MantissaAt(a, x) + MantissaAt(b, x), x, a.d, a.q \/ b.q)

\* a + b, a - b: pint refuses operands of different dimensionality; a bare
\* number counts as dimensionless, and the Quantity added to it is brought
\* to the unit without prefix.  Of two Quantities the right one is brought to
\* the unit of the left one.
Sum[pair \in Values \X Values] ==
    LET a == pair[1]
        b == pair[2]
    IN
        IF ~IsOk(a) THEN a
        ELSE IF ~IsOk(b) THEN b
        ELSE IF Dimensionality(a.d) # Dimensionality(b.d) THEN Raise("DimensionalityError")
        ELSE IF a.cx \/ b.cx THEN Complex(a.d, a.q \/ b.q)
        ELSE IF a.q /\ b.q
        THEN SumInOneUnit[<< a, Rescaled(b, a.d.milli) >>]
        ELSE SumInOneUnit[<< Rescaled(a, 0), Rescaled(b, 0) >>]

PyAdd(a, b) == Sum[<< a, b >>]

Negated[a \in Values] ==
    IF ~IsOk(a) \/ a.cx THEN a ELSE [a EXCEPT !.m = -a.m]

PyNeg(a) == Negated[a]

\* a - b is a + (-b); an exception raised by a comes first.
PySub(a, b) == PyAdd(a, PyNeg(b))

Product[pair \in Values \X Values] ==
    LET a == pair[1]
        b == pair[2]
    IN
        IF ~IsOk(a) THEN a
        ELSE IF ~IsOk(b) THEN b
        ELSE IF a.cx \/ b.cx THEN Complex(DimMul(a.d, b.d), a.q \/ b.q)
        ELSE Val(MulFix(a.m, b.m), a.x + b.x, DimMul(a.d, b.d), a.q \/ b.q)

PyMul(a, b) == Product[<< a, b >>]

\* a / b: a zero divisor raises ZeroDivisionError, for floats and for
\* Quantities alike.
Quotient[pair \in Values \X Values] ==
    LET a == pair[1]
        b == pair[2]
    IN
        IF ~IsOk(a) THEN a
        ELSE IF ~IsOk(b) THEN b
        ELSE IF ~b.cx /\ b.m = 0 THEN Raise("ZeroDivisionError")
        ELSE IF a.cx \/ b.cx THEN Complex(DimDiv(a.d, b.d), a.q \/ b.q)
        ELSE Val(DivFix(a.m, b.m), a.x - b.x, DimDiv(a.d, b.d), a.q \/ b.q)

PyDiv(a, b) == Quotient[<< a, b >>]

\* m ** p for a mantissa m > 0 at decimal exponent 0.
PowFix(m, p) ==
    IF p = 0 THEN Scale
    ELSE IF p = Scale THEN m
    ELSE IF p = 2 * Scale THEN MulFix(m, m)
    ELSE IF p = 3 * Scale THEN MulFix(MulFix(m, m), m)
    ELSE IF p = Half THEN SqrtFix(m)
    ELSE IF p = ThreeHalves THEN MulFix(m, SqrtFix(m))
    ELSE ExpFix(MulFix(p, LnFix(m)))

\* a ** p, p a float (at Scale).  Python 3 returns a complex number for a
\* negative float raised to a fractional power, and raises
\* ZeroDivisionError for zero raised to a negative power.  A decimal
\* exponent that p would not leave whole is changed by one first.
Power[pair \in Values \X Int] ==
    LET a == pair[1]
        p == pair[2]
    IN
        IF ~IsOk(a) THEN a
        ELSE IF a.cx THEN Complex(DimPow(a.d, p), a.q)
        ELSE IF a.m < 0 /\ p % Scale # 0 THEN Complex(DimPow(a.d, p), a.q)
        ELSE IF a.m = 0 /\ p < 0 THEN Raise("ZeroDivisionError")
        ELSE IF a.m = 0 THEN Val(IF p = 0 THEN Scale ELSE 0, 0, DimPow(a.d, p), a.q)
        ELSE LET mag  == AbsInt(a.m)
                 sign == IF a.m < 0 /\ (p \div Scale) % 2 = 1 THEN -1 ELSE 1
                 odd  == (a.x * (p \div Half)) % 2 # 0
                 up   == odd /\ mag < 100 * Scale
                 m    == IF ~odd THEN mag ELSE IF up THEN mag * 10 ELSE mag \div 10
                 x    == IF ~odd THEN a.x ELSE IF up THEN a.x - 1 ELSE a.x + 1
             IN  Val(sign * PowFix(m, p), (x * (p \div Half)) \div 2,
                     DimPow(a.d, p), a.q)

PyPow(a, p) == Power[<< a, p >>]

\* float(v), as math.exp, math.log and math.fabs apply it to their argument:
\* a complex number is refused with TypeError, a Quantity that is not
\* dimensionless with DimensionalityError; a dimensionless Quantity is
\* brought to the unit without prefix first.
AsFloat[v \in Values] ==
    IF ~IsOk(v) THEN v
    ELSE IF v.cx THEN Raise("TypeError")
    ELSE IF Dimensionality(v.d) # NoDim THEN Raise("DimensionalityError")
    ELSE Num(MantissaAt(Rescaled(v, 0), 0))

PyFloat(v) == AsFloat[v]

Exponential[v \in Values] ==
    LET f == PyFloat(v) IN IF ~IsOk(f) THEN f ELSE Num(ExpFix(f.m))

math_exp(v) == Exponential[v]

Logarithm[v \in Values] ==
    LET f == PyFloat(v)
    IN  IF ~IsOk(f) THEN f
        ELSE IF f.m <= 0 THEN Raise("ValueError")
        ELSE Num(LnFix(f.m))

math_log(v) == Logarithm[v]

AbsoluteFloat[v \in Values] ==
    LET f == PyFloat(v) IN IF ~IsOk(f) THEN f ELSE Num(AbsInt(f.m))

math_fabs(v) == AbsoluteFloat[v]

\* v.magnitude: a bare number has no such attribute.
MagnitudeOf[v \in Values] ==
    IF ~IsOk(v) THEN v
    ELSE IF ~v.q THEN Raise("AttributeError")
    ELSE [v EXCEPT !.d = NoDim, !.q = FALSE]

Magnitude(v) == MagnitudeOf[v]

\* v.to(unit) for a unit of dimension d: the magnitude is brought back to
\* decimal exponent 0.
Converted[pair \in Values \X Dims] ==
    LET v == pair[1]
        d == pair[2]
    IN
        IF ~IsOk(v) THEN v
        ELSE IF ~v.q THEN Raise("AttributeError")
        ELSE IF Dimensionality(v.d) # Dimensionality(d) THEN Raise("DimensionalityError")
        ELSE Val(MantissaAt(Rescaled(v, d.milli), 0), 0, d, TRUE)

QuantityTo(v, d) == Converted[<< v, d >>]

\* v.to_base_units(): the value in the units without prefix; a bare number
\* has no such method.
BaseUnits[v \in Values] ==
    IF ~IsOk(v) THEN v
    ELSE IF ~v.q THEN Raise("AttributeError")
    ELSE Rescaled(v, 0)

to_base_units(v) == BaseUnits[v]

\* v == 0 (pint compares a dimensionless Quantity by its magnitude).
PyIsZero(v) == IsOk(v) /\ ~v.cx /\ v.m = 0

----------------------------------------------------------------------------
(* The collaborators: logging, the unit registry, the properties of water *)

\* What the logging system receives: (message, severity).
LogRecord(level, msg) == [level |-> level, msg |-> msg]

\* c * unit('degC'), c an integer number of degrees.  Temperatures are held
\* in kelvin: 0 degC is 273.15 K (mantissa 273150 at decimal exponent 3).
DegC(c) == Val(273150 + c * K3, 3, KelvinDim, TRUE)
\* The unit-tagged default, 25 * unit('degC').
DefaultTemperature == DegC(25)

\* The physical constants of the unit registry, in SI units.
math_pi == Num(3141593)
elementary_charge == Val(1602177, -19, DimOf(0, 0, 0, 0, 1, 1), TRUE)
avogadro_number == Val(6022141, 23, DimOf(-1, 0, 0, 0, 0, 0), TRUE)
epsilon_0 == Val(8854188, -12, DimOf(0, -1, 0, -3, 4, 2), TRUE)
boltzmann_constant == Val(1380649, -23, DimOf(0, 1, -1, 2, -2, 0), TRUE)

\* The fitted correlations of water_properties, tabulated at the
\* temperatures of the model: density in kg/m^3 and the relative
\* permittivity.  Both call temperature.to(...), which a bare number lacks.
DensityTable(c) ==
    CASE c = 10 -> 9997410
      [] c = 25 -> 9970415
      [] c = 50 -> 9880400
      [] OTHER -> 9970415

DielectricTable(c) ==
    CASE c = 10 -> 8385000
      [] c = 25 -> 7835500
      [] c = 50 -> 6992700
      [] OTHER -> 7835500

CelsiusOf(temperature) == (MantissaAt(temperature, 3) - 273150) \div K3

water_density(temperature) ==
    IF ~temperature.q THEN Raise("AttributeError")
    ELSE Val(DensityTable(CelsiusOf(temperature)), 2, DimOf(0, 1, 0, -3, 0, 0), TRUE)

water_dielectric_constant(temperature) ==
    IF ~temperature.q THEN Raise("AttributeError")
    ELSE Val(DielectricTable(CelsiusOf(temperature)), 1, NoDim, FALSE)

----------------------------------------------------------------------------
(* The Debye-Huckel parameters.  Every function returns [ret, log]: the     *)
(* value returned or the exception raised, and the records it logged.      *)

Two == Num(2 * Scale)
Three == Num(3 * Scale)
Four == Num(4 * Scale)
Eight == Num(8 * Scale)
One == Num(Scale)

\* name = value, then the statements after it: the right-hand side is
\* evaluated once and the rest of the body runs with the name bound to it.
Assign(value, Rest(_)) == Rest(value)

_debye_parameter_B(temperature) ==
    Assign(PyPow(PyDiv(PyMul(PyMul(PyMul(Eight, math_pi), avogadro_number),
                             PyPow(elementary_charge, 2 * Scale)),
                       PyMul(PyMul(PyMul(PyMul(water_density(temperature),
                                               epsilon_0),
                                         water_dielectric_constant(temperature)),
                                   boltzmann_constant),
                             temperature)),
                 Half),
           LAMBDA param_B : [ret |-> to_base_units(param_B), log |-> << >>])

_debye_parameter_activity(temperature) ==
    Assign(PyDiv(PyMul(PyPow(elementary_charge, 3 * Scale),
                       PyPow(PyMul(PyMul(PyMul(Two, math_pi), avogadro_number),
                                   water_density(temperature)),
                             Half)),
                 PyPow(PyMul(PyMul(PyMul(PyMul(PyMul(Four, math_pi), epsilon_0),
                                         water_dielectric_constant(temperature)),
                                   boltzmann_constant),
                             temperature),
                       ThreeHalves)),
           LAMBDA debyeparam :
               [ret |-> QuantityTo(debyeparam, RootKgPerMol),
                log |-> IF IsOk(debyeparam)
                        THEN << LogRecord("info", "Computed Debye-Huckel Limiting Law Constant A") >>
                        ELSE << >>])

\* 1/3 is the float nearest one third; the temperature passed in is not
\* handed on: _debye_parameter_activity() runs with its own default.
_debye_parameter_osmotic(temperature) ==
    Assign(_debye_parameter_activity(DefaultTemperature), LAMBDA A :
    Assign(PyMul(PyDiv(One, Three), A.ret), LAMBDA output :
        [ret |-> QuantityTo(output, RootKgPerMol), log |-> A.log]))

----------------------------------------------------------------------------
(* The simple models: limiting law, Guntelberg, Davies *)

\* An argument the caller left out.
Omitted == [x |-> 0, m |-> 0, d |-> NoDim, q |-> FALSE, e |-> "omitted", cx |-> FALSE]
\* def f(..., temperature=default): the default stands in for an omitted
\* argument.
Param(arg, default) == IF arg = Omitted THEN default ELSE arg

\* The bare default of the Guntelberg, Davies and TCPC osmotic signatures.
BareDefaultTemperature == Num(25 * Scale)

LimitDebyeHuckel == 5000
LimitGuntelberg == 100000
LowerLimitDavies == 100000
UpperLimitDavies == 500000
DaviesConstant == 200000

WarnDebyeHuckel ==
    LogRecord("warning", "Ionic strength exceeds valid range of the Debye-Huckel limiting law")
WarnGuntelberg ==
    LogRecord("warning", "Ionic strength exceeds valid range of the Guntelberg approximation")
WarnDavies ==
    LogRecord("warning", "Ionic strength exceeds valid range of the Davies equation")

Square(z) == Num(z * z * Scale)

\* Statements run in order: the first one that raises ends the call.
FirstRaised[vs \in Seq(Values)] ==
    IF \E i \in 1..Len(vs) : ~IsOk(vs[i])
    THEN vs[CHOOSE i \in 1..Len(vs) : ~IsOk(vs[i]) /\ \A j \in 1..(i - 1) : IsOk(vs[j])]
    ELSE vs[Len(vs)]

FirstError(vs) == FirstRaised[vs]

\* A faulty variant of the limiting law, for C8: the minus sign of log_f is
\* lost.
get_activity_coefficient_debyehuckel_positive_exponent(ionic_strength, formal_charge, temperature_arg) ==
    Assign(Magnitude(ionic_strength), LAMBDA mag :
        IF ~IsOk(mag) THEN [ret |-> mag, log |-> << >>]
        ELSE
    Assign(IF ~(mag.m <= LimitDebyeHuckel) THEN << WarnDebyeHuckel >> ELSE << >>, LAMBDA warn :
    Assign(_debye_parameter_activity(Param(temperature_arg, DefaultTemperature)), LAMBDA A :
    Assign(PyMul(PyMul(A.ret, Square(formal_charge)),
                 PyPow(ionic_strength, Half)), LAMBDA log_f :
        [ret |-> math_exp(log_f), log |-> warn \o A.log]))))

\* The range check comes first; the records logged before an exception was
\* raised stay logged.
get_activity_coefficient_debyehuckel(ionic_strength, formal_charge, temperature_arg) ==
    Assign(Magnitude(ionic_strength), LAMBDA mag :
        IF ~IsOk(mag) THEN [ret |-> mag, log |-> << >>]
        ELSE
    Assign(IF ~(mag.m <= LimitDebyeHuckel) THEN << WarnDebyeHuckel >> ELSE << >>, LAMBDA warn :
    Assign(_debye_parameter_activity(Param(temperature_arg, DefaultTemperature)), LAMBDA A :
    Assign(PyMul(PyMul(PyNeg(A.ret), Square(formal_charge)),
                 PyPow(ionic_strength, Half)), LAMBDA log_f :
        [ret |-> math_exp(log_f), log |-> warn \o A.log]))))

get_activity_coefficient_guntelberg(ionic_strength, formal_charge, temperature_arg) ==
    Assign(Magnitude(ionic_strength), LAMBDA mag :
        IF ~IsOk(mag) THEN [ret |-> mag, log |-> << >>]
        ELSE
    Assign(IF ~(mag.m <= LimitGuntelberg) THEN << WarnGuntelberg >> ELSE << >>, LAMBDA warn :
    Assign(_debye_parameter_activity(Param(temperature_arg, BareDefaultTemperature)), LAMBDA A :
    Assign(PyDiv(PyMul(PyMul(PyNeg(A.ret), Square(formal_charge)),
                       PyPow(ionic_strength, Half)),
                 PyAdd(One, PyPow(mag, Half))), LAMBDA log_f :
        [ret |-> math_exp(log_f), log |-> warn \o A.log]))))

\* A faulty variant of the Davies equation, for C4: the empirical term is
\* the constant 0.2, not 0.2 * I.
get_activity_coefficient_davies_constant_term(ionic_strength, formal_charge, temperature_arg) ==
    Assign(Magnitude(ionic_strength), LAMBDA mag :
        IF ~IsOk(mag) THEN [ret |-> mag, log |-> << >>]
        ELSE
    Assign(IF ~(mag.m <= UpperLimitDavies) /\ mag.m >= LowerLimitDavies
           THEN << WarnDavies >> ELSE << >>, LAMBDA warn :
    Assign(_debye_parameter_activity(Param(temperature_arg, BareDefaultTemperature)), LAMBDA A :
    Assign(PyMul(PyMul(PyNeg(Magnitude(A.ret)), Square(formal_charge)),
                 PySub(PyDiv(PyPow(mag, Half), PyAdd(One, PyPow(mag, Half))),
                       Num(DaviesConstant))), LAMBDA log_f :
        [ret |-> math_exp(log_f), log |-> warn \o A.log]))))

\* "not a <= 0.5 and a >= 0.1" is "(not a <= 0.5) and (a >= 0.1)".
get_activity_coefficient_davies(ionic_strength, formal_charge, temperature_arg) ==
    Assign(Magnitude(ionic_strength), LAMBDA mag :
        IF ~IsOk(mag) THEN [ret |-> mag, log |-> << >>]
        ELSE
    Assign(IF ~(mag.m <= UpperLimitDavies) /\ mag.m >= LowerLimitDavies
           THEN << WarnDavies >> ELSE << >>, LAMBDA warn :
    Assign(_debye_parameter_activity(Param(temperature_arg, BareDefaultTemperature)), LAMBDA A :
    Assign(PyMul(PyMul(PyNeg(Magnitude(A.ret)), Square(formal_charge)),
                 PySub(PyDiv(PyPow(mag, Half), PyAdd(One, PyPow(mag, Half))),
                       PyMul(Num(DaviesConstant), mag))), LAMBDA log_f :
        [ret |-> math_exp(log_f), log |-> warn \o A.log]))))

----------------------------------------------------------------------------
(* The modified TCPC model *)

AbsProduct(z1, z2) == Num(AbsInt(z1 * z2) * Scale)
IntSum(a, b) == Num((a + b) * Scale)

\* The Debye-Huckel term shared by the TCPC and the Pitzer activity forms:
\* I ** 0.5 / (1 + b * I ** 0.5) + 2 / b * math.log(1 + b * I ** 0.5).
LongRangeSum(ionic_strength, b) ==
    PyAdd(PyDiv(PyPow(ionic_strength, Half),
                PyAdd(One, PyMul(b, PyPow(ionic_strength, Half)))),
          PyMul(PyDiv(Two, b),
                math_log(PyAdd(One, PyMul(b, PyPow(ionic_strength, Half))))))

get_activity_coefficient_TCPC(ionic_strength, S, b, n, formal_charge, counter_formal_charge, stoich_coeff, counter_stoich_coeff, temperature_arg) ==
    Assign(Param(temperature_arg, DefaultTemperature), LAMBDA temperature :
    Assign(_debye_parameter_osmotic(temperature), LAMBDA A_phi :
    Assign(PyMul(PyMul(PyNeg(math_fabs(AbsProduct(formal_charge, counter_formal_charge))),
                       A_phi.ret),
                 LongRangeSum(ionic_strength, b)), LAMBDA PDH :
    Assign(PyDiv(PyMul(PyDiv(S, QuantityTo(temperature, KelvinDim)),
                       PyPow(ionic_strength, 2 * n.m)),
                 IntSum(stoich_coeff, counter_stoich_coeff)), LAMBDA SV :
        [ret |-> math_exp(PyAdd(PDH, SV)), log |-> A_phi.log]))))

\* No function named kelvin is defined or imported by the module.
kelvin(temperature) == Raise("NameError")

get_osmotic_coefficient_TCPC(ionic_strength, S, b, n, formal_charge, counter_formal_charge, stoich_coeff, counter_stoich_coeff, temperature_arg) ==
    Assign(Param(temperature_arg, BareDefaultTemperature), LAMBDA temperature :
    Assign(_debye_parameter_osmotic(temperature), LAMBDA A_phi :
    Assign(PyDiv(PyMul(PyMul(PyNeg(math_fabs(AbsProduct(formal_charge,
                                                        counter_formal_charge))),
                             A_phi.ret),
                       PyPow(ionic_strength, Half)),
                 PyAdd(One, PyMul(b, PyPow(ionic_strength, Half)))), LAMBDA term2 :
    Assign(PyMul(PyDiv(PyMul(PyMul(PyDiv(S, PyMul(kelvin(temperature),
                                                  IntSum(stoich_coeff,
                                                         counter_stoich_coeff))),
                                   Two),
                             n),
                       PyAdd(PyMul(Two, n), One)),
                 PyPow(ionic_strength, 2 * n.m)), LAMBDA term3 :
        [ret |-> FirstError(<< term2, term3, PyAdd(PySub(One, term2), term3) >>),
         log |-> A_phi.log]))))

----------------------------------------------------------------------------
(* The Pitzer ion-interaction model *)

\* A faulty variant of f1, for C7: no special case, the ratio is evaluated
\* for every x.
_pitzer_f1_ratio_only(x) ==
    IF ~IsOk(x) THEN x
    ELSE PyDiv(PyMul(Two, PySub(One, PyMul(PyAdd(One, x), math_exp(PyNeg(x))))),
               PyPow(x, 2 * Scale))

_pitzer_f1(x) ==
    IF ~IsOk(x) THEN x
    ELSE IF PyIsZero(x) THEN Num(0)
    ELSE PyDiv(PyMul(Two, PySub(One, PyMul(PyAdd(One, x), math_exp(PyNeg(x))))),
               PyPow(x, 2 * Scale))

_pitzer_f2(x) ==
    IF ~IsOk(x) THEN x
    ELSE IF PyIsZero(x) THEN Num(0)
    ELSE PyDiv(PyMul(PyNeg(Two),
                     PySub(One,
                           PyMul(PyAdd(PyAdd(One, x), PyDiv(PyPow(x, 2 * Scale), Two)),
                                 math_exp(PyNeg(x))))),
               PyPow(x, 2 * Scale))

Unit(d) == Qty(Scale, d)

\* A faulty variant of B_MX, for C16: f2 is applied to the alpha2 term.
_pitzer_B_MX_f2_second_term(ionic_strength, alpha1, alpha2, beta0, beta1, beta2) ==
    Assign(PyAdd(PyAdd(beta0,
                       PyMul(beta1, _pitzer_f1(PyMul(alpha1, PyPow(ionic_strength, Half))))),
                 PyMul(beta2, _pitzer_f2(PyMul(alpha2, PyPow(ionic_strength, Half))))),
           LAMBDA coeff : PyMul(coeff, Unit(KgPerMol)))

_pitzer_B_MX(ionic_strength, alpha1, alpha2, beta0, beta1, beta2) ==
    Assign(PyAdd(PyAdd(beta0,
                       PyMul(beta1, _pitzer_f1(PyMul(alpha1, PyPow(ionic_strength, Half))))),
                 PyMul(beta2, _pitzer_f1(PyMul(alpha2, PyPow(ionic_strength, Half))))),
           LAMBDA coeff : PyMul(coeff, Unit(KgPerMol)))

_pitzer_B_phi(ionic_strength, alpha1, alpha2, beta0, beta1, beta2) ==
    Assign(PyAdd(PyAdd(beta0,
                       PyMul(beta1, math_exp(PyMul(PyNeg(alpha1), PyPow(ionic_strength, Half))))),
                 PyMul(beta2, math_exp(PyMul(PyNeg(alpha2), PyPow(ionic_strength, Half))))),
           LAMBDA coeff : PyMul(coeff, Unit(KgPerMol)))

_pitzer_C_phi(C_MX, z_cation, z_anion) ==
    Assign(PyMul(C_MX, PyPow(PyMul(Two, AbsProduct(z_cation, z_anion)), Half)),
           LAMBDA coeff : PyMul(coeff, Unit(Kg2PerMol2)))

IntProduct(a, b) == Num(a * b * Scale)
IntNum(a) == Num(a * Scale)

\* A faulty variant of log gamma, for C9: the molality term is assembled as
\* in the osmotic coefficient, with B_phi alone.
_pitzer_log_gamma_B_phi_alone(ionic_strength, molality, B_MX, B_phi, C_phi, z_cation, z_anion, nu_cation, nu_anion, temperature_arg, b) ==
    Assign(_debye_parameter_osmotic(Param(temperature_arg, DefaultTemperature)), LAMBDA A_phi :
    Assign(PyMul(PyMul(PyMul(PyNeg(One), AbsProduct(z_cation, z_anion)), A_phi.ret),
                 LongRangeSum(ionic_strength, b)), LAMBDA first_term :
    Assign(PyMul(PyDiv(PyMul(PyMul(PyMul(Two, molality), IntNum(nu_cation)),
                             IntNum(nu_anion)),
                       IntSum(nu_cation, nu_anion)),
                 B_phi), LAMBDA second_term :
    Assign(PyMul(PyDiv(PyMul(PyMul(Three, PyPow(molality, 2 * Scale)),
                             PyPow(IntProduct(nu_cation, nu_anion), ThreeHalves)),
                       IntSum(nu_cation, nu_anion)),
                 C_phi), LAMBDA third_term :
    Assign(PyAdd(PyAdd(first_term, second_term), third_term), LAMBDA ln_gamma :
        [ret |-> ln_gamma, log |-> A_phi.log,
         first_term |-> first_term, second_term |-> second_term,
         third_term |-> third_term])))))

_pitzer_log_gamma(ionic_strength, molality, B_MX, B_phi, C_phi, z_cation, z_anion, nu_cation, nu_anion, temperature_arg, b) ==
    Assign(_debye_parameter_osmotic(Param(temperature_arg, DefaultTemperature)), LAMBDA A_phi :
    Assign(PyMul(PyMul(PyMul(PyNeg(One), AbsProduct(z_cation, z_anion)), A_phi.ret),
                 LongRangeSum(ionic_strength, b)), LAMBDA first_term :
    Assign(PyMul(PyDiv(PyMul(PyMul(PyMul(Two, molality), IntNum(nu_cation)),
                             IntNum(nu_anion)),
                       IntSum(nu_cation, nu_anion)),
                 PyAdd(B_MX, B_phi)), LAMBDA second_term :
    Assign(PyMul(PyDiv(PyMul(PyMul(Three, PyPow(molality, 2 * Scale)),
                             PyPow(IntProduct(nu_cation, nu_anion), ThreeHalves)),
                       IntSum(nu_cation, nu_anion)),
                 C_phi), LAMBDA third_term :
    Assign(PyAdd(PyAdd(first_term, second_term), third_term), LAMBDA ln_gamma :
        [ret |-> ln_gamma, log |-> A_phi.log,
         first_term |-> first_term, second_term |-> second_term,
         third_term |-> third_term])))))

\* A faulty variant of the tagging, for C17: the bare number is used as it
\* is.
Tagged_left_bare(v, d) == v

\* A salt's parameters, as the caller supplies them: bare numbers.
Tagged(v, d) == PyMul(v, Unit(d))

get_activity_coefficient_pitzer(ionic_strength, molality, salt, temperature_arg, b_arg) ==
    Assign(Tagged(salt.alpha1, RootKgPerMol), LAMBDA alpha1 :
    Assign(Tagged(salt.alpha2, RootKgPerMol), LAMBDA alpha2 :
    Assign(Tagged(b_arg, RootKgPerMol), LAMBDA b :
    Assign(_pitzer_B_MX(ionic_strength, alpha1, alpha2, salt.beta0, salt.beta1, salt.beta2),
           LAMBDA BMX :
    Assign(_pitzer_B_phi(ionic_strength, alpha1, alpha2, salt.beta0, salt.beta1, salt.beta2),
           LAMBDA Bphi :
    Assign(_pitzer_C_phi(salt.C_MX, salt.z_cation, salt.z_anion), LAMBDA Cphi :
    Assign(_pitzer_log_gamma(ionic_strength, molality, BMX, Bphi, Cphi,
                             salt.z_cation, salt.z_anion, salt.nu_cation,
                             salt.nu_anion, Param(temperature_arg, DefaultTemperature), b),
           LAMBDA lg :
    Assign(FirstError(<< BMX, Bphi, Cphi, lg.ret >>), LAMBDA loggamma :
        [ret |-> math_exp(loggamma),
         log |-> IF IsOk(FirstError(<< BMX, Bphi, Cphi >>)) THEN lg.log ELSE << >>,
         B_MX |-> BMX, B_phi |-> Bphi, C_phi |-> Cphi,
         first_term |-> lg.first_term, second_term |-> lg.second_term,
         third_term |-> lg.third_term]))))))))

get_osmotic_coefficient_pitzer(ionic_strength, molality, salt, temperature_arg, b_arg) ==
    Assign(Tagged(salt.alpha1, RootKgPerMol), LAMBDA alpha1 :
    Assign(Tagged(salt.alpha2, RootKgPerMol), LAMBDA alpha2 :
    Assign(Tagged(b_arg, RootKgPerMol), LAMBDA b :
    Assign(_debye_parameter_osmotic(Param(temperature_arg, DefaultTemperature)), LAMBDA A_phi :
    Assign(_pitzer_B_phi(ionic_strength, alpha1, alpha2, salt.beta0, salt.beta1, salt.beta2),
           LAMBDA Bphi :
    Assign(_pitzer_C_phi(salt.C_MX, salt.z_cation, salt.z_anion), LAMBDA Cphi :
    Assign(PySub(One,
                 PyDiv(PyMul(PyMul(A_phi.ret, AbsProduct(salt.z_cation, salt.z_anion)),
                             PyPow(ionic_strength, Half)),
                       PyAdd(One, PyMul(b, PyPow(ionic_strength, Half))))),
           LAMBDA first_term :
    Assign(PyMul(PyDiv(PyMul(PyMul(PyMul(molality, Two), IntNum(salt.nu_cation)),
                             IntNum(salt.nu_anion)),
                       IntSum(salt.nu_cation, salt.nu_anion)),
                 Bphi), LAMBDA second_term :
    Assign(PyMul(PyMul(PyPow(molality, 2 * Scale),
                       PyDiv(PyMul(Two, PyPow(IntProduct(salt.nu_cation, salt.nu_anion),
                                              ThreeHalves)),
                             IntSum(salt.nu_cation, salt.nu_anion))),
                 Cphi), LAMBDA third_term :
    Assign(PyAdd(PyAdd(first_term, second_term), third_term), LAMBDA osmotic_coefficient :
        [ret |-> osmotic_coefficient, log |-> A_phi.log,
         B_MX |-> Omitted, B_phi |-> Bphi, C_phi |-> Cphi,
         first_term |-> first_term, second_term |-> second_term,
         third_term |-> third_term]))))))))))

----------------------------------------------------------------------------
(* The calls.  A state holds one call: the function, the arguments the      *)
(* caller supplied, and, once the call has run, what it returned or raised, *)
(* the records it logged and the locals it computed.                        *)

VARIABLES fn, args, pc, ret, log, locals

\* For concurrent calls (below): the frame of every thread, and the objects
\* the module holds for its whole life.
VARIABLES threads, module_state

call_vars == << fn, args, pc, ret, log, locals >>
vars == << fn, args, pc, ret, log, locals, threads, module_state >>

MaxCharge == 2

Charges == { z \in (-MaxCharge)..MaxCharge : z # 0 }
Celsius == {10, 25, 50}
TemperatureArgs == {Omitted} \cup { DegC(c) : c \in Celsius }
MolPerKgOf(S) == { Qty(m, MolPerKg) : m \in S }
NumOf(S) == { Num(m) : m \in S }

\* The ionic strengths of the simple models: in mol/kg, and 1 and 5 mmol/kg.
IonicStrengths ==
    MolPerKgOf({-100000, 0, 1000, 5000, 20000, 50000, 100000, 300000, 500000, 700000})
    \cup { Qty(m, MilliMolPerKg) : m \in {Scale, 5 * Scale} }
SaltIonicStrengths == MolPerKgOf({-100000, 0, 100000, 500000})
Molalities == MolPerKgOf({100000, 500000})
TCPCIonicStrengths ==
    MolPerKgOf({-100000, 0, 500000}) \cup NumOf({-100000, 0, 500000})
F1Arguments == { Qty(m, NoDim) : m \in {-1000000, 0, 100000, 500000, 1000000, 2000000} }

\* Salts of the docstring examples, and a 2:1 salt.
PotassiumFormate ==
    [alpha1 |-> Num(1000000), alpha2 |-> Num(500000), beta0 |-> Num(-18119),
     beta1 |-> Num(-462582), beta2 |-> Num(468200), C_MX |-> Num(246),
     z_cation |-> 1, z_anion |-> -1, nu_cation |-> 1, nu_anion |-> 1]
AmmoniumNitrate ==
    [alpha1 |-> Num(2000000), alpha2 |-> Num(0), beta0 |-> Num(-17090),
     beta1 |-> Num(91980), beta2 |-> Num(0), C_MX |-> Num(419),
     z_cation |-> 1, z_anion |-> -1, nu_cation |-> 1, nu_anion |-> 1]
MagnesiumChloride ==
    [alpha1 |-> Num(2000000), alpha2 |-> Num(0), beta0 |-> Num(352350),
     beta1 |-> Num(1681500), beta2 |-> Num(0), C_MX |-> Num(5190),
     z_cation |-> 2, z_anion |-> -1, nu_cation |-> 1, nu_anion |-> 2]
Salts == {PotassiumFormate, AmmoniumNitrate, MagnesiumChloride}
PitzerB == NumOf({0, 1200000})

\* TCPC parameter sets: S, b, n and the salt's charges and stoichiometry.
TCPCSalts ==
    { [b |-> b,
       n |-> n,
       formal_charge |-> c[1],
       S |-> Num(100 * Scale),
       counter_formal_charge |-> -1,
       stoich_coeff |-> 1,
       counter_stoich_coeff |-> c[2]] :
      b \in NumOf({0, 1200000, 3000000}), n \in NumOf({500000, 645000}),
      c \in {<<1, 1>>, <<2, 2>>} }

NoArgs ==
    [x |-> Omitted,
     b |-> Omitted,
     temperature |-> Omitted,
     ionic_strength |-> Omitted,
     formal_charge |-> 1,
     molality |-> Omitted,
     salt |-> PotassiumFormate,
     tcpc |-> CHOOSE t \in TCPCSalts : TRUE]

ParameterFunctions ==
    {"_debye_parameter_B", "_debye_parameter_activity", "_debye_parameter_osmotic"}
SimpleModels ==
    {"get_activity_coefficient_debyehuckel", "get_activity_coefficient_guntelberg",
     "get_activity_coefficient_davies"}
TCPCModels == {"get_activity_coefficient_TCPC", "get_osmotic_coefficient_TCPC"}
PitzerModels == {"get_activity_coefficient_pitzer", "get_osmotic_coefficient_pitzer"}
PitzerHelpers == {"_pitzer_f1", "_pitzer_f2"}

ArgsOf(f) ==
    IF f \in ParameterFunctions THEN
        { [NoArgs EXCEPT !.temperature = t] : t \in TemperatureArgs }
    ELSE IF f \in SimpleModels THEN
        { [NoArgs EXCEPT !.ionic_strength = i, !.formal_charge = z, !.temperature = t] :
          i \in IonicStrengths, z \in Charges, t \in TemperatureArgs }
    ELSE IF f \in TCPCModels THEN
        { [NoArgs EXCEPT !.ionic_strength = i, !.tcpc = p, !.temperature = t] :
          i \in TCPCIonicStrengths, p \in TCPCSalts, t \in TemperatureArgs }
    ELSE IF f \in PitzerModels THEN
        { [NoArgs EXCEPT !.ionic_strength = i, !.molality = m, !.salt = sa,
                         !.temperature = t, !.b = b] :
          i \in SaltIonicStrengths, m \in Molalities, sa \in Salts,
          t \in TemperatureArgs, b \in PitzerB }
    ELSE { [NoArgs EXCEPT !.x = x] : x \in F1Arguments }

Functions ==
    ParameterFunctions \cup SimpleModels \cup TCPCModels \cup PitzerModels
    \cup PitzerHelpers

NoLocals == [B_MX |-> Omitted, B_phi |-> Omitted, C_phi |-> Omitted,
             first_term |-> Omitted, second_term |-> Omitted, third_term |-> Omitted]

\* The module as the import leaves it: the logger with its one handler
\* (lines 22-23) and the unit-tagged default temperature, which Python
\* evaluates once, when the def statement runs.
ModuleAfterImport ==
    [logger_handlers |-> << "NullHandler" >>, default_temperature |-> DefaultTemperature]

Init ==
    /\ fn \in Functions
    /\ args \in ArgsOf(fn)
    /\ pc = "called"
    /\ ret = Omitted
    /\ log = << >>
    /\ locals = NoLocals
    /\ threads = << >>
    /\ module_state = ModuleAfterImport

\* The call of function f runs to its end: r is what f computes.
Run(f, r) ==
    /\ pc = "called"
    /\ fn = f
    /\ pc' = "done"
    /\ ret' = r.ret
    /\ log' = r.log
    /\ UNCHANGED << fn, args, threads, module_state >>

Plain(f, r) == Run(f, r) /\ locals' = NoLocals

Call_debye_parameter_B ==
    Plain("_debye_parameter_B",
          _debye_parameter_B(Param(args.temperature, DefaultTemperature)))

Call_debye_parameter_activity ==
    Plain("_debye_parameter_activity",
          _debye_parameter_activity(Param(args.temperature, DefaultTemperature)))

Call_debye_parameter_osmotic ==
    Plain("_debye_parameter_osmotic",
          _debye_parameter_osmotic(Param(args.temperature, DefaultTemperature)))

Call_debyehuckel ==
    Plain("get_activity_coefficient_debyehuckel",
          get_activity_coefficient_debyehuckel(args.ionic_strength, args.formal_charge,
                                               args.temperature))

Call_guntelberg ==
    Plain("get_activity_coefficient_guntelberg",
          get_activity_coefficient_guntelberg(args.ionic_strength, args.formal_charge,
                                              args.temperature))

Call_davies ==
    Plain("get_activity_coefficient_davies",
          get_activity_coefficient_davies(args.ionic_strength, args.formal_charge,
                                          args.temperature))

Call_activity_TCPC ==
    Plain("get_activity_coefficient_TCPC",
          get_activity_coefficient_TCPC(args.ionic_strength, args.tcpc.S, args.tcpc.b,
                                        args.tcpc.n, args.tcpc.formal_charge,
                                        args.tcpc.counter_formal_charge,
                                        args.tcpc.stoich_coeff,
                                        args.tcpc.counter_stoich_coeff, args.temperature))

Call_osmotic_TCPC ==
    Plain("get_osmotic_coefficient_TCPC",
          get_osmotic_coefficient_TCPC(args.ionic_strength, args.tcpc.S, args.tcpc.b,
                                       args.tcpc.n, args.tcpc.formal_charge,
                                       args.tcpc.counter_formal_charge,
                                       args.tcpc.stoich_coeff,
                                       args.tcpc.counter_stoich_coeff, args.temperature))

\* The same, keeping the locals of the call for inspection.
Traced(f, r) == Run(f, r) /\ locals' = [l \in DOMAIN NoLocals |-> r[l]]

Call_activity_pitzer ==
    Traced("get_activity_coefficient_pitzer",
           get_activity_coefficient_pitzer(args.ionic_strength, args.molality,
                                           args.salt, args.temperature, args.b))

Call_osmotic_pitzer ==
    Traced("get_osmotic_coefficient_pitzer",
           get_osmotic_coefficient_pitzer(args.ionic_strength, args.molality,
                                          args.salt, args.temperature, args.b))

Call_pitzer_f1 ==
    Plain("_pitzer_f1", [ret |-> _pitzer_f1(args.x), log |-> << >>])

Call_pitzer_f2 ==
    Plain("_pitzer_f2", [ret |-> _pitzer_f2(args.x), log |-> << >>])

Next ==
    \/ Call_debye_parameter_B
    \/ Call_debye_parameter_activity
    \/ Call_debye_parameter_osmotic
    \/ Call_debyehuckel
    \/ Call_guntelberg
    \/ Call_davies
    \/ Call_activity_TCPC
    \/ Call_osmotic_TCPC
    \/ Call_activity_pitzer
    \/ Call_osmotic_pitzer
    \/ Call_pitzer_f1
    \/ Call_pitzer_f2

Spec == Init /\ [][Next]_vars

----------------------------------------------------------------------------
(* Concurrent calls.  Every thread runs one call, statement by statement,   *)
(* in a frame of its own; the threads share the module.                     *)

NumThreads == 2
Threads == 1..NumThreads

ThreadCalls ==
    { [fn |-> "get_activity_coefficient_debyehuckel",
       args |-> [NoArgs EXCEPT !.ionic_strength = Qty(20000, MolPerKg),
                               !.temperature = t]] : t \in {Omitted, DegC(50)} }
    \cup
    { [fn |-> "get_activity_coefficient_pitzer",
       args |-> [NoArgs EXCEPT !.ionic_strength = Qty(500000, MolPerKg),
                               !.molality = Qty(500000, MolPerKg),
                               !.b = b]] : b \in PitzerB }

NoFrame ==
    [b |-> Omitted,
     log_f |-> Omitted,
     alpha1 |-> Omitted,
     alpha2 |-> Omitted,
     BMX |-> Omitted,
     Bphi |-> Omitted,
     Cphi |-> Omitted,
     loggamma |-> Omitted]

\* A call as it starts: args are the caller's objects, passed is what they
\* held when the call was made.
Started(c) ==
    [ret |-> Omitted,
     log |-> << >>,
     fn |-> c.fn,
     args |-> c.args,
     pc |-> "called",
     passed |-> c.args,
     frame |-> NoFrame]

InitThreads ==
    /\ threads \in [Threads -> { Started(c) : c \in ThreadCalls }]
    /\ module_state = ModuleAfterImport
    /\ fn = "none"
    /\ args = NoArgs
    /\ pc = "idle"
    /\ ret = Omitted
    /\ log = << >>
    /\ locals = NoLocals

\* Thread t is in function f at position p.
At(t, f, p) == threads[t].fn = f /\ threads[t].pc = p

\* A statement of thread t: it changes the thread's own frame and nothing else.
Step(t, after) ==
    /\ threads' = [threads EXCEPT ![t] = after]
    /\ UNCHANGED << module_state, call_vars >>

\* The value of the temperature parameter in thread t: the default object of
\* the module where the caller passed none.
TemperatureOf(t) == Param(threads[t].args.temperature, module_state.default_temperature)

\* A faulty variant of the range check, for C10: the temperature of the
\* call is kept in the module's default object for later calls.
Thread_check_range_keeping_temperature(t) ==
    /\ At(t, "get_activity_coefficient_debyehuckel", "called")
    /\ threads' = [threads EXCEPT
                     ![t].pc = "checked",
                     ![t].log = IF ~(Magnitude(threads[t].args.ionic_strength).m
                                     <= LimitDebyeHuckel)
                                THEN @ \o << WarnDebyeHuckel >> ELSE @]
    /\ module_state' = [module_state EXCEPT !.default_temperature = TemperatureOf(t)]
    /\ UNCHANGED call_vars

\* Lines 171-172: the range check of the limiting law.
Thread_check_range(t) ==
    /\ At(t, "get_activity_coefficient_debyehuckel", "called")
    /\ Step(t, [threads[t] EXCEPT
                   !.pc = "checked",
                   !.log = IF ~(Magnitude(threads[t].args.ionic_strength).m <= LimitDebyeHuckel)
                           THEN @ \o << WarnDebyeHuckel >> ELSE @])

Bound_log_f(t, A) ==
    Step(t, [threads[t] EXCEPT
               !.pc = "computed",
               !.log = @ \o A.log,
               !.frame.log_f = PyMul(PyMul(PyNeg(A.ret), Square(threads[t].args.formal_charge)),
                                     PyPow(threads[t].args.ionic_strength, Half))])

\* Line 174: log_f = - _debye_parameter_activity(temperature) * ...
Thread_log_f(t) ==
    /\ At(t, "get_activity_coefficient_debyehuckel", "checked")
    /\ Bound_log_f(t, _debye_parameter_activity(TemperatureOf(t)))

\* Line 176: return math.exp(log_f)
Thread_return_debyehuckel(t) ==
    /\ At(t, "get_activity_coefficient_debyehuckel", "computed")
    /\ Step(t, [threads[t] EXCEPT !.pc = "returned", !.ret = math_exp(threads[t].frame.log_f)])

\* Lines 389-391: alpha1, alpha2 and b are rebound, in the frame, to tagged
\* copies.
Thread_tag_units(t) ==
    /\ At(t, "get_activity_coefficient_pitzer", "called")
    /\ Step(t, [threads[t] EXCEPT
                   !.pc = "tagged",
                   !.frame.alpha1 = Tagged(threads[t].args.salt.alpha1, RootKgPerMol),
                   !.frame.alpha2 = Tagged(threads[t].args.salt.alpha2, RootKgPerMol),
                   !.frame.b = Tagged(threads[t].args.b, RootKgPerMol)])

\* Line 393.
Thread_B_MX(t) ==
    /\ At(t, "get_activity_coefficient_pitzer", "tagged")
    /\ Step(t, [threads[t] EXCEPT
                   !.pc = "BMX",
                   !.frame.BMX = _pitzer_B_MX(threads[t].args.ionic_strength,
                                              threads[t].frame.alpha1, threads[t].frame.alpha2,
                                              threads[t].args.salt.beta0,
                                              threads[t].args.salt.beta1,
                                              threads[t].args.salt.beta2)])

\* Line 394.
Thread_B_phi(t) ==
    /\ At(t, "get_activity_coefficient_pitzer", "BMX")
    /\ Step(t, [threads[t] EXCEPT
                   !.pc = "Bphi",
                   !.frame.Bphi = _pitzer_B_phi(threads[t].args.ionic_strength,
                                                threads[t].frame.alpha1, threads[t].frame.alpha2,
                                                threads[t].args.salt.beta0,
                                                threads[t].args.salt.beta1,
                                                threads[t].args.salt.beta2)])

\* Line 395.
Thread_C_phi(t) ==
    /\ At(t, "get_activity_coefficient_pitzer", "Bphi")
    /\ Step(t, [threads[t] EXCEPT
                   !.pc = "Cphi",
                   !.frame.Cphi = _pitzer_C_phi(threads[t].args.salt.C_MX,
                                                threads[t].args.salt.z_cation,
                                                threads[t].args.salt.z_anion)])

\* An exception raised by the callee ends the call there.
Bound_loggamma(t, lg) ==
    Step(t, [threads[t] EXCEPT
               !.pc = IF IsOk(lg.ret) THEN "loggamma" ELSE "raised",
               !.log = @ \o lg.log,
               !.frame.loggamma = lg.ret,
               !.ret = IF IsOk(lg.ret) THEN @ ELSE lg.ret])

\* Line 397.
Thread_log_gamma(t) ==
    /\ At(t, "get_activity_coefficient_pitzer", "Cphi")
    /\ Bound_loggamma(t, _pitzer_log_gamma(threads[t].args.ionic_strength,
                                           threads[t].args.molality,
                                           threads[t].frame.BMX, threads[t].frame.Bphi,
                                           threads[t].frame.Cphi,
                                           threads[t].args.salt.z_cation,
                                           threads[t].args.salt.z_anion,
                                           threads[t].args.salt.nu_cation,
                                           threads[t].args.salt.nu_anion,
                                           TemperatureOf(t), threads[t].frame.b))

\* Line 399.
Thread_return_pitzer(t) ==
    /\ At(t, "get_activity_coefficient_pitzer", "loggamma")
    /\ Step(t, [threads[t] EXCEPT !.pc = "returned", !.ret = math_exp(threads[t].frame.loggamma)])

NextThreads ==
    \E t \in Threads :
        \/ Thread_check_range(t)
        \/ Thread_log_f(t)
        \/ Thread_return_debyehuckel(t)
        \/ Thread_tag_units(t)
        \/ Thread_B_MX(t)
        \/ Thread_B_phi(t)
        \/ Thread_C_phi(t)
        \/ Thread_log_gamma(t)
        \/ Thread_return_pitzer(t)

SpecThreads == InitThreads /\ [][NextThreads]_vars

----------------------------------------------------------------------------
(* Properties of single calls (specification Spec) *)

\* The call of f has run to its end.
Done(f) == pc = "done" /\ fn = f
\* The validity warnings among the records of a log.
Warnings(l) == Cardinality({ i \in 1..Len(l) : l[i].level = "warning" })
ModelFunctions == SimpleModels \cup TCPCModels \cup PitzerModels
\* The caller passed a temperature: a quantity of the unit registry.
TemperaturePassed == args.temperature # Omitted

\* C1: for every temperature T the caller passes, _debye_parameter_osmotic(T)
\* returns a third of _debye_parameter_activity(T), both at that same T (to
\* the last digit kept).
C1_OsmoticIsThirdOfActivityAtT ==
    Done("_debye_parameter_osmotic") =>
        /\ IsOk(ret)
        /\ AbsInt(3 * ret.m
                  - _debye_parameter_activity(Param(args.temperature,
                                                    DefaultTemperature)).ret.m) <= 3

\* C2: a call of the limiting law with ionic strength above 0.005, or of the
\* Guntelberg model with ionic strength above 0.1, logs exactly one validity
\* warning, raises no exception and returns a coefficient; a call with a
\* non-negative ionic strength inside the range logs no warning.
RangeLimit(f) ==
    IF f = "get_activity_coefficient_debyehuckel" THEN LimitDebyeHuckel ELSE LimitGuntelberg

C2_OutOfRangeWarnsOnceAndReturns ==
    \A f \in {"get_activity_coefficient_debyehuckel", "get_activity_coefficient_guntelberg"} :
        (Done(f) /\ args.ionic_strength.m >= 0) =>
            IF args.ionic_strength.m > RangeLimit(f)
            THEN Warnings(log) = 1 /\ IsOk(ret) /\ ret.m > 0
            ELSE Warnings(log) = 0

\* C3: a call of the Davies model logs a validity warning exactly when the
\* ionic strength is outside 0.1 <= I <= 0.5: for I > 0.5 and for
\* 0 <= I < 0.1, and not inside the range.
C3_DaviesWarnsOutsideRange ==
    (Done("get_activity_coefficient_davies") /\ args.ionic_strength.m >= 0) =>
        (Warnings(log) = 1
         <=> (args.ionic_strength.m < LowerLimitDavies
              \/ args.ionic_strength.m > UpperLimitDavies))

\* C4: for each of the three simple models, every formal charge and every
\* temperature the caller passes, a call with ionic strength 0 returns
\* exactly 1 (exp returns exactly 1 for log_f = 0 and for no other log_f).
C4_UnitCoefficientAtZeroIonicStrength ==
    \A f \in SimpleModels :
        (Done(f) /\ args.ionic_strength.m = 0 /\ TemperaturePassed) => ret = One

C4_Witness ==
    /\ Done("get_activity_coefficient_davies")
    /\ args.ionic_strength = Qty(0, MolPerKg)
    /\ args.formal_charge = -MaxCharge
    /\ args.temperature = DegC(50)
    /\ ret = One

\* C5: for every model function, a call with negative ionic strength ends in
\* a domain error (Python's ValueError), raised before or instead of the
\* square root.
C5_NegativeIonicStrengthIsDomainError ==
    \A f \in ModelFunctions :
        (Done(f) /\ args.ionic_strength.m < 0) => ret.e = "ValueError"

\* C6: for both TCPC variants, a call with b = 0 ends in a division-by-zero
\* error, for every ionic strength and every other parameter.
C6_ZeroBIsDivisionByZero ==
    \A f \in TCPCModels :
        (Done(f) /\ args.tcpc.b.m = 0) => ret.e = "ZeroDivisionError"

\* The closed forms of f1 and f2 on magnitudes.
F1Formula(x) ==
    DivFix(MulFix(2 * Scale, Scale - MulFix(Scale + x, ExpFix(-x))), MulFix(x, x))
F2Formula(x) ==
    DivFix(MulFix(-2 * Scale,
                  Scale - MulFix(Scale + x + DivFix(MulFix(x, x), 2 * Scale), ExpFix(-x))),
           MulFix(x, x))

\* C7: _pitzer_f1(0) and _pitzer_f2(0) return exactly 0 and raise nothing;
\* for every x # 0 they return 2(1-(1+x)e^-x)/x^2 and
\* -2(1-(1+x+x^2/2)e^-x)/x^2.
C7_F1F2ZeroCaseAndFormula ==
    /\ Done("_pitzer_f1") =>
          /\ IsOk(ret)
          /\ ret.m = IF args.x.m = 0 THEN 0 ELSE F1Formula(args.x.m)
    /\ Done("_pitzer_f2") =>
          /\ IsOk(ret)
          /\ ret.m = IF args.x.m = 0 THEN 0 ELSE F2Formula(args.x.m)

C7_Witness ==
    Done("_pitzer_f1") /\ args.x = Qty(0, NoDim) /\ ret = Num(0)

\* The call of C8: I = 0.1 mol/kg, z = 1, T = 25 degC.
SharedIonicStrengthCall(f) ==
    /\ Done(f)
    /\ args.ionic_strength = Qty(100000, MolPerKg)
    /\ args.formal_charge = 1
    /\ args.temperature = DegC(25)

LimitingLawOfCall ==
    get_activity_coefficient_debyehuckel(args.ionic_strength, args.formal_charge,
                                         args.temperature).ret

\* C8, as the code has it: at I = 0.1, z = 1 and 25 degC the Davies model
\* returns a coefficient higher than or equal to the one of the limiting
\* law.
C8_DaviesNotBelowLimitingLaw ==
    SharedIonicStrengthCall("get_activity_coefficient_davies") =>
        /\ IsOk(ret)
        /\ IsOk(LimitingLawOfCall)
        /\ ret.m >= LimitingLawOfCall.m

\* C8, as it is stated: at I = 0.1, z = 1 and 25 degC the Davies model
\* returns a coefficient lower than or equal to the one of the limiting law.
C8_DaviesNotAboveLimitingLaw ==
    SharedIonicStrengthCall("get_activity_coefficient_davies") =>
        /\ IsOk(ret)
        /\ IsOk(LimitingLawOfCall)
        /\ ret.m <= LimitingLawOfCall.m

C8_Witness ==
    /\ SharedIonicStrengthCall("get_activity_coefficient_davies")
    /\ IsOk(ret)
    /\ ret.m > LimitingLawOfCall.m
    /\ ret.m < Scale

\* The factors of the Pitzer assemblies on magnitudes:
\* 2 m nu_c nu_a / (nu_c + nu_a), and the C_phi terms with their leading
\* coefficients 3 and 2.
MolalityFactor(a) ==
    DivFix(MulFix(MulFix(MulFix(2 * Scale, a.molality.m), a.salt.nu_cation * Scale),
                  a.salt.nu_anion * Scale),
           (a.salt.nu_cation + a.salt.nu_anion) * Scale)
NuProductPower(a) == PowFix(a.salt.nu_cation * a.salt.nu_anion * Scale, ThreeHalves)
ActivityCphiFactor(a) ==
    DivFix(MulFix(MulFix(3 * Scale, MulFix(a.molality.m, a.molality.m)), NuProductPower(a)),
           (a.salt.nu_cation + a.salt.nu_anion) * Scale)
OsmoticCphiFactor(a) ==
    MulFix(MulFix(a.molality.m, a.molality.m),
           DivFix(MulFix(2 * Scale, NuProductPower(a)),
                  (a.salt.nu_cation + a.salt.nu_anion) * Scale))
BphiOfCall ==
    _pitzer_B_phi(args.ionic_strength, Tagged(args.salt.alpha1, RootKgPerMol),
                  Tagged(args.salt.alpha2, RootKgPerMol), args.salt.beta0,
                  args.salt.beta1, args.salt.beta2)
CphiOfCall == _pitzer_C_phi(args.salt.C_MX, args.salt.z_cation, args.salt.z_anion)

\* C9: in the activity form the molality term is
\* 2m nu_c nu_a/(nu_c+nu_a) * (B_MX + B_phi) and the C_phi term has the
\* leading coefficient 3; in the osmotic form the molality term has B_phi
\* alone and the C_phi term has the leading coefficient 2; both use the
\* B_phi and C_phi of the same inputs.
C9_PitzerAssembliesDiffer ==
    /\ (Done("get_activity_coefficient_pitzer") /\ IsOk(ret)) =>
          /\ locals.second_term.m = MulFix(MolalityFactor(args), locals.B_MX.m + locals.B_phi.m)
          /\ locals.third_term.m = MulFix(ActivityCphiFactor(args), locals.C_phi.m)
          /\ locals.B_phi = BphiOfCall
          /\ locals.C_phi = CphiOfCall
    /\ (Done("get_osmotic_coefficient_pitzer") /\ IsOk(ret)) =>
          /\ locals.second_term.m = MulFix(MolalityFactor(args), locals.B_phi.m)
          /\ locals.third_term.m = MulFix(OsmoticCphiFactor(args), locals.C_phi.m)
          /\ locals.B_MX = Omitted
          /\ locals.B_phi = BphiOfCall
          /\ locals.C_phi = CphiOfCall

C9_Witness ==
    /\ Done("get_activity_coefficient_pitzer")
    /\ IsOk(ret)
    /\ args.salt = MagnesiumChloride
    /\ locals.B_MX.m > 0
    /\ locals.third_term.m > 0
    /\ locals.second_term.m # MulFix(MolalityFactor(args), locals.B_phi.m)

----------------------------------------------------------------------------
(* Properties of concurrent calls (specification SpecThreads) *)

\* What the call of a thread returns and logs when it runs alone.
Alone(th) ==
    IF th.fn = "get_activity_coefficient_debyehuckel"
    THEN LET r == get_activity_coefficient_debyehuckel(th.passed.ionic_strength,
                                                       th.passed.formal_charge,
                                                       th.passed.temperature)
         IN  [ret |-> r.ret, log |-> r.log]
    ELSE LET r == get_activity_coefficient_pitzer(th.passed.ionic_strength,
                                                  th.passed.molality, th.passed.salt,
                                                  th.passed.temperature, th.passed.b)
         IN  [ret |-> r.ret, log |-> r.log]

Ended(th) == th.pc \in {"returned", "raised"}

\* C10: whatever the interleaving, the logger and the default temperature
\* of the module stay as the import left them, the arguments of every call
\* stay as they were passed, and every call that has ended returned (or
\* raised) and logged what it does when run alone with the same arguments.
C10_ConcurrentCallsIndependent ==
    /\ module_state = ModuleAfterImport
    /\ \A t \in DOMAIN threads :
          /\ threads[t].args = threads[t].passed
          /\ Ended(threads[t]) =>
                /\ threads[t].ret = Alone(threads[t]).ret
                /\ threads[t].log = Alone(threads[t]).log

\* A call that relied on the default has returned while another thread,
\* called with 50 degC, is between its statements.
C10_Witness ==
    /\ threads[1].fn = "get_activity_coefficient_debyehuckel"
    /\ threads[1].passed.temperature = Omitted
    /\ threads[1].pc = "returned"
    /\ IsOk(threads[1].ret)
    /\ threads[2].fn = "get_activity_coefficient_debyehuckel"
    /\ threads[2].passed.temperature = DegC(50)
    /\ threads[2].pc = "computed"

----------------------------------------------------------------------------
(* Further properties of single calls (specification Spec) *)

\* The ionic strength is a quantity in mol/kg, not negative.
IonicStrengthInMolPerKg ==
    /\ args.ionic_strength.q
    /\ args.ionic_strength.d = MolPerKg
    /\ args.ionic_strength.m >= 0

\* C11: with the ionic strength a quantity in mol/kg, the temperature a
\* quantity, and bare numbers S, n and b # 0, get_activity_coefficient_TCPC
\* raises no unit-consistency error and returns a coefficient.
C11_TCPCActivityCompletes ==
    (/\ Done("get_activity_coefficient_TCPC")
     /\ IonicStrengthInMolPerKg
     /\ TemperaturePassed
     /\ args.tcpc.b.m # 0)
        => IsOk(ret) /\ ret.m > 0

\* C12: for every non-negative ionic strength, b # 0 and temperature
\* passed, get_osmotic_coefficient_TCPC completes and returns a
\* coefficient; every helper it calls is defined.
C12_TCPCOsmoticCompletes ==
    (/\ Done("get_osmotic_coefficient_TCPC")
     /\ args.ionic_strength.m >= 0
     /\ TemperaturePassed
     /\ args.tcpc.b.m # 0)
        => IsOk(ret) /\ ret.e # "NameError"

\* What the call of this state returns and logs when the temperature t is
\* passed explicitly, everything else as the caller gave it.
WithTemperature(t) ==
    CASE fn = "get_activity_coefficient_debyehuckel" ->
            get_activity_coefficient_debyehuckel(args.ionic_strength,
                                                 args.formal_charge, t)
      [] fn = "get_activity_coefficient_guntelberg" ->
            get_activity_coefficient_guntelberg(args.ionic_strength,
                                                args.formal_charge, t)
      [] fn = "get_activity_coefficient_davies" ->
            get_activity_coefficient_davies(args.ionic_strength,
                                            args.formal_charge, t)
      [] fn = "get_activity_coefficient_TCPC" ->
            get_activity_coefficient_TCPC(args.ionic_strength, args.tcpc.S,
                                          args.tcpc.b, args.tcpc.n,
                                          args.tcpc.formal_charge,
                                          args.tcpc.counter_formal_charge,
                                          args.tcpc.stoich_coeff,
                                          args.tcpc.counter_stoich_coeff, t)
      [] fn = "get_osmotic_coefficient_TCPC" ->
            get_osmotic_coefficient_TCPC(args.ionic_strength, args.tcpc.S,
                                         args.tcpc.b, args.tcpc.n,
                                         args.tcpc.formal_charge,
                                         args.tcpc.counter_formal_charge,
                                         args.tcpc.stoich_coeff,
                                         args.tcpc.counter_stoich_coeff, t)
      [] fn = "get_activity_coefficient_pitzer" ->
            get_activity_coefficient_pitzer(args.ionic_strength, args.molality,
                                            args.salt, t, args.b)
      [] fn = "get_osmotic_coefficient_pitzer" ->
            get_osmotic_coefficient_pitzer(args.ionic_strength, args.molality,
                                           args.salt, t, args.b)

\* C13: for every public model function, a call that omits the temperature
\* returns (or raises) and logs exactly what the same call does with the
\* temperature passed as the unit-tagged quantity 25 degC.
C13_OmittedTemperatureIsTagged25 ==
    \A f \in ModelFunctions :
        (Done(f) /\ ~TemperaturePassed) =>
            /\ ret = WithTemperature(DegC(25)).ret
            /\ log = WithTemperature(DegC(25)).log

\* The call of the docstring example of lines 336-337: potassium formate at
\* ionic strength and molality 0.5 mol/kg, b = 1.2, at 25 degC.
PotassiumFormateExample ==
    /\ Done("get_activity_coefficient_pitzer")
    /\ args.ionic_strength = Qty(500000, MolPerKg)
    /\ args.molality = Qty(500000, MolPerKg)
    /\ args.salt = PotassiumFormate
    /\ args.b = Num(1200000)
    /\ args.temperature \in {Omitted, DegC(25)}

\* C14: get_activity_coefficient_pitzer, called as in the docstring example
\* for potassium formate, returns a value within 0.001 of 0.6205.
C14_PotassiumFormateNear06205 ==
    PotassiumFormateExample =>
        /\ IsOk(ret)
        /\ AbsInt(MantissaAt(ret, 0) - 620500) <= 1000

\* C15: for both Pitzer variants, a call with b = 0 ends in a numeric-domain
\* error (Python's ZeroDivisionError or ValueError) and returns no
\* coefficient, for every ionic strength and every other parameter.
C15_PitzerZeroBIsDomainError ==
    \A f \in PitzerModels :
        (Done(f) /\ args.b = Num(0)) => ret.e \in {"ZeroDivisionError", "ValueError"}

\* f1 and f2 on magnitudes, with their special case.
F1Of(x) == IF x = 0 THEN 0 ELSE F1Formula(x)
F2Of(x) == IF x = 0 THEN 0 ELSE F2Formula(x)
\* beta0 + beta1 * f1(alpha1 * sqrt(I)) + beta2 * f1(alpha2 * sqrt(I)) for
\* the arguments a of a Pitzer call.
BMXFormula(a) ==
    a.salt.beta0.m
    + MulFix(a.salt.beta1.m, F1Of(MulFix(a.salt.alpha1.m, SqrtFix(a.ionic_strength.m))))
    + MulFix(a.salt.beta2.m, F1Of(MulFix(a.salt.alpha2.m, SqrtFix(a.ionic_strength.m))))

C17_PitzerUnitsConsistent ==
    \A f \in PitzerModels :
        Done(f) =>
            /\ ret.e # "DimensionalityError"
            /\ IsOk(ret) => ret.d = NoDim
            /\ \A l \in {"B_MX", "B_phi"} :
                   IsOk(locals[l]) => locals[l].q /\ locals[l].d = KgPerMol
            /\ IsOk(locals.C_phi) => locals.C_phi.q /\ locals.C_phi.d = Kg2PerMol2
            /\ \A l \in {"first_term", "second_term", "third_term"} :
                   IsOk(locals[l]) => locals[l].d = NoDim

C17_Witness ==
    /\ Done("get_activity_coefficient_pitzer")
    /\ args.ionic_strength = Qty(500000, MolPerKg)
    /\ args.salt = MagnesiumChloride
    /\ args.b = Num(1200000)
    /\ IsOk(ret)
    /\ locals.B_MX.d = KgPerMol
    /\ locals.C_phi.d = Kg2PerMol2
    /\ \A l \in {"first_term", "second_term", "third_term"} :
           IsOk(locals[l]) /\ locals[l].q /\ locals[l].d = NoDim

\* sqrt(8 pi N_A e^2 / (1000 eps0 eps_r(T) k T rho(T))) in base SI units.
DebyeBWithFactor1000(temperature) ==
    to_base_units(
        PyPow(PyDiv(PyMul(PyMul(PyMul(Eight, math_pi), avogadro_number),
                          PyPow(elementary_charge, 2 * Scale)),
                    PyMul(PyMul(PyMul(PyMul(PyMul(Val(Scale, 3, NoDim, FALSE),
                                                  epsilon_0),
                                            water_dielectric_constant(temperature)),
                                      boltzmann_constant),
                                temperature),
                          water_density(temperature))),
              Half))

\* C18: _debye_parameter_B(T) returns
\* sqrt(8 pi N_A e^2 / (1000 eps0 eps_r(T) k T rho(T))) in base SI units: the
\* factor 1000 is in the denominator under the square root.
C18_DebyeBHasFactor1000 ==
    Done("_debye_parameter_B") =>
        LET expected == DebyeBWithFactor1000(Param(args.temperature, DefaultTemperature))
        IN  /\ IsOk(ret)
            /\ ret.d = expected.d
            /\ ret.x = expected.x
            /\ AbsInt(ret.m - expected.m) <= 2

\* C19: at ionic strength 0 mol/kg (any molality, b # 0, the temperature
\* passed) the three simple models, get_activity_coefficient_TCPC and both
\* Pitzer variants return a number; none of them ends in an error.
C19_ZeroIonicStrengthIsDefined ==
    \A f \in SimpleModels \cup {"get_activity_coefficient_TCPC"} \cup PitzerModels :
        (/\ Done(f)
         /\ args.ionic_strength = Qty(0, MolPerKg)
         /\ TemperaturePassed
         /\ f \in PitzerModels => args.b.m # 0
         /\ f \in TCPCModels => args.tcpc.b.m # 0)
            => IsOk(ret)

\* What the simple model of this state returns and logs for the ionic
\* strength i, charge and temperature as the caller gave them.
WithIonicStrength(i) ==
    CASE fn = "get_activity_coefficient_debyehuckel" ->
            get_activity_coefficient_debyehuckel(i, args.formal_charge,
                                                 args.temperature)
      [] fn = "get_activity_coefficient_guntelberg" ->
            get_activity_coefficient_guntelberg(i, args.formal_charge,
                                                args.temperature)
      [] fn = "get_activity_coefficient_davies" ->
            get_activity_coefficient_davies(i, args.formal_charge,
                                            args.temperature)

\* C20: a simple model called with an ionic strength in mmol/kg logs the
\* same warnings and returns the same coefficient (to 0.00001) as it does
\* for the same ionic strength written in mol/kg.
C20_SameIonicStrengthInOtherUnit ==
    \A f \in SimpleModels :
        (Done(f) /\ TemperaturePassed /\ args.ionic_strength.d = MilliMolPerKg) =>
            LET same == WithIonicStrength(QuantityTo(args.ionic_strength, MolPerKg))
            IN  /\ IsOk(ret)
                /\ log = same.log
                /\ AbsInt(ret.m - same.ret.m) <= 10

====
